---- MODULE Spec2Model ----
(***************************************************************************)
(* The task workflow engine of AtlasAI-CLI: the task graph of              *)
(* atlasai/task/task_parser.py and the executor of                         *)
(* atlasai/task/task_executor.py.                                          *)
(*                                                                         *)
(* A behaviour first builds a TaskGraph by add_task calls, then constructs *)
(* a TaskExecutor and runs execute_tasks once.  execute_tasks is split at  *)
(* the places where the claims look inside it: the loop head, each command *)
(* dispatch and each mark_as_completed.  Other behaviours start from a     *)
(* task file, a generated template or a file an author wrote, which         *)
(* parse_task_file turns into the TaskGraph.                                *)
(***************************************************************************)
EXTENDS Integers, Sequences, FiniteSets, TLC

VARIABLES
    tasks,            \* TaskGraph.tasks: id -> TaskDefinition (a function on the registered ids)
    taskOrder,        \* insertion order of the keys of TaskGraph.tasks (a Python dict keeps it)
    nodes,            \* TaskGraph.graph: the nodes of the DiGraph, in insertion order
    edges,            \* TaskGraph.graph: the edges <<dependency, dependent>>, in insertion order
    nAdds,            \* number of add_task calls made so far
    added,            \* the TaskDefinition passed to the most recent add_task call
    pc,               \* "build" | "loop" | "task" | "done": the position in execute_tasks
    result,           \* "pending" | "True" | "False": what execute_tasks returned
    stop,             \* the return site of execute_tasks
    agent,            \* whether the GeneralAgent has been created
    execution_order,  \* the display order computed by get_execution_order
    working_dir,      \* TaskExecutor.working_dir
    verify_commands,  \* TaskExecutor.verify_commands
    callback,         \* whether execute_tasks was given a callback
    cwd,              \* the process working directory
    next_tasks,       \* the ready set of the current round
    ti,               \* index in next_tasks of the task being run
    ci,               \* index in task.commands of the next command
    runnerCalls,      \* number of execute_command calls of the run
    queryCalls,       \* number of agent.process_query calls of the run
    flips,            \* per task id: how often is_completed went from false to true
    last,             \* what the most recent command dispatch did
    round,            \* number of ready sets the run has taken up
    ran_round,        \* per task id: the round it was run in (0: not run)
    dispatches,       \* per task id: the commands of it dispatched so far, in order
    task_file,        \* the text of the task file ("" while there is none)
    template_tasks,   \* the --tasks option the task file was generated with
    parsed,           \* whether parse_task_file has read the task file
    authored,         \* the parts the author composed the task file of
    metadata          \* TaskGraph.metadata: the Python value it holds

graphVars == <<tasks, taskOrder, nodes, edges, nAdds, added>>
cfgVars == <<working_dir, verify_commands, callback>>
runVars == <<pc, result, stop, agent, execution_order, next_tasks, ti, ci,
             runnerCalls, queryCalls, flips, last, cwd, round, ran_round,
             dispatches>>
fileVars == <<task_file, template_tasks, parsed, authored, metadata>>
vars == <<graphVars, cfgVars, runVars, fileVars>>

(***************************************************************************)
(* Bounds and input sets                                                   *)
(***************************************************************************)
MaxAdds == 2
MaxTemplateTasks == 4
MaxDeps == 2
MaxBlocks == 2
MaxMetadataLines == 2

\* the days generate_task_template is run on
Dates == {"2026-11-01"}

TaskIds == {"t1", "t2"}
AbsentId == "zz"
DepTokens == TaskIds \cup {AbsentId, ""}
DependsOnLists ==
    {<<>>, <<"t1">>, <<"t2">>, <<AbsentId>>, <<AbsentId, "t1">>, <<"", "t2">>,
     <<"t1", "t2">>}

CmdEcho == "echo a"
CmdQuery == "atlasai --query 'hi'"
CmdNoPayload == "atlasai --query"
CommandLists == {<<>>, <<CmdEcho>>, <<CmdEcho, CmdQuery>>, <<CmdNoPayload, CmdEcho>>}

\* commands around the marker "atlasai": the marker alone, without payload,
\* without the flag, a program whose name starts with the marker (with and
\* without "--query" behind it), a well-formed one, and the marker as an argument
MarkerCommands ==
    {"atlasai", CmdNoPayload, "atlasai run tests now", "atlasaictl status now",
     "atlasaictl --query 'hi'", CmdQuery, "echo atlasai"}

\* a title with its description
TaskTexts ==
    {[title |-> "Build", description |-> "what the task does"],
     [title |-> "Test", description |-> ""]}
\* the run shows title and description and does nothing else with them
RunTitles == {"Build"}
RunDescriptions == {"what the task does"}

\* the working directories a TaskExecutor is constructed with
\* what an author puts between the commas of a depends attribute: a token with
\* blanks before and after it
Pads == {"", " "}
DocTokens == {"", "t2", AbsentId}
DepItems == [pre : Pads, token : DocTokens, post : Pads]
DepItemLists == UNION {[1..n -> DepItems] : n \in 0..MaxDeps}

\* the bodies an author writes: a heading line, narrative text, fenced blocks
\* of command lines, every line behind the same indentation
Indents == {"", "   "}
Narratives == {"what the task does", "line one\n   line two", ""}
CommandLine(pre, text, post) == [pre |-> pre, text |-> text, post |-> post]
Blocks ==
    {[tag |-> "bash", lines |-> <<CommandLine("", "echo a", "")>>],
     [tag |-> "", lines |-> <<CommandLine(" ", "ls -l", " "), CommandLine("", "", " "),
                             CommandLine("", "# note", "")>>],
     [tag |-> "sh", lines |-> <<>>]}
BlockLists == UNION {[1..n -> Blocks] : n \in 1..MaxBlocks}
Betweens == {"", "then:\n"}

\* the lines an author puts into the metadata section
MetadataLines ==
    {"- author: Ann", "priority: high", "   - allow_file_operations: true",
     "- date: 2026-11-01", "- title: Demo", "- just text", "note", "  "}
MetadataLineLists == UNION {[1..n -> MetadataLines] : n \in 0..MaxMetadataLines}

\* the tasks of a three-task file, in document order, and what each may
\* depend on: any of the other two
RoundIds == <<"t1", "t2", "t3">>
RoundIdSet == {RoundIds[i] : i \in 1..Len(RoundIds)}
RoundDepends ==
    {deps \in [RoundIdSet -> SUBSET RoundIdSet] : \A t \in RoundIdSet : t \notin deps[t]}

Dirs == {".", "/work"}
StartDir == "/home"

OutNormal == "a"
OutFailed == "Error: exit 1"
OutRestricted == "Error: rm not allowed"
RunnerResults == {OutNormal, OutFailed, OutRestricted}
ExcText == "Error: boom"
ChunkSeqs == {<<>>, <<"c1", "c2">>}

(***************************************************************************)
(* Strings.  The string operations of the executor work on the sequence of *)
(* the characters of a string.                                             *)
(***************************************************************************)
Chars(s) == [i \in 1..Len(s) |-> SubSeq(s, i, i)]

SetMin(S) == CHOOSE x \in S : \A y \in S : x <= y
SetMax(S) == CHOOSE x \in S : \A y \in S : y <= x

\* s.startswith(p)
StartsWith(s, p) == Len(s) >= Len(p) /\ SubSeq(s, 1, Len(p)) = p

\* p in s
Contains(s, p) == \E i \in 0..(Len(s) - Len(p)) : SubSeq(s, i + 1, i + Len(p)) = p

\* s.split(sep, maxsplit) for a one-character sep
RECURSIVE Split(_, _, _)
Split(s, sep, maxsplit) ==
    LET at == {i \in 1..Len(s) : s[i] = sep} IN
    IF maxsplit = 0 \/ at = {} THEN <<s>>
    ELSE LET i == SetMin(at) IN
         <<SubSeq(s, 1, i - 1)>> \o Split(SubSeq(s, i + 1, Len(s)), sep, maxsplit - 1)

\* s.strip(chars)
Strip(s, chars) ==
    LET keep == {i \in 1..Len(s) : s[i] \notin chars} IN
    IF keep = {} THEN <<>> ELSE SubSeq(s, SetMin(keep), SetMax(keep))

Range(s) == {s[i] : i \in 1..Len(s)}

(***************************************************************************)
(* Strings as TLC holds them: Len, SubSeq and \o work on a string, and      *)
(* SubSeq(s, i, i) is its i-th character.  The template and the parser     *)
(* work on whole documents this way.                                       *)
(***************************************************************************)
CharAt(s, i) == SubSeq(s, i, i)

\* s[i:], with i counted from 1
From(s, i) == SubSeq(s, i, Len(s))

\* s.startswith(p, i), with i counted from 1
StartsWithAt(s, p, i) == i + Len(p) - 1 <= Len(s) /\ SubSeq(s, i, i + Len(p) - 1) = p

\* s.find(p, start) counted from 1: the first place at or after start where p
\* stands, 0 when there is none
Find(s, p, start) ==
    LET at == {i \in start..(Len(s) - Len(p) + 1) : SubSeq(s, i, i + Len(p) - 1) = p} IN
    IF at = {} THEN 0 ELSE SetMin(at)

\* the characters \s matches and str.strip() removes
Whitespace == {" ", "\t", "\n", "\r", "\f"}

\* the characters \w matches, among those the documents use
WordChars ==
    {CharAt("abcdefghijklmnopqrstuvwxyzABCDEFGHIJKLMNOPQRSTUVWXYZ0123456789_", i) :
        i \in 1..63}

\* the end of the longest run of characters of the set cs that starts at i:
\* the first place at or after i with another character, Len(s) + 1 at the end
SkipChars(s, cs, i) ==
    LET stop_at == {j \in i..Len(s) : CharAt(s, j) \notin cs} IN
    IF stop_at = {} THEN Len(s) + 1 ELSE SetMin(stop_at)

\* s.strip()
StripStr(s) ==
    LET keep == {i \in 1..Len(s) : CharAt(s, i) \notin Whitespace} IN
    IF keep = {} THEN "" ELSE SubSeq(s, SetMin(keep), SetMax(keep))

\* s.split(sep): the pieces between the occurrences of sep, as a sequence
RECURSIVE SplitStr(_, _)
SplitStr(s, sep) ==
    LET i == Find(s, sep, 1) IN
    IF i = 0 THEN <<s>>
    ELSE <<SubSeq(s, 1, i - 1)>> \o SplitStr(From(s, i + Len(sep)), sep)

\* The grave accent cannot stand in a string of this module: the documents of
\* the model have "~", which they use for nothing else, in its place.
Backquote == "~"

\* the fence of a code block: three grave accents
Fence == Backquote \o Backquote \o Backquote

\* str(i) for a natural number
RECURSIVE IntStr(_)
IntStr(i) ==
    IF i < 10 THEN CharAt("0123456789", i + 1)
    ELSE IntStr(i \div 10) \o CharAt("0123456789", (i % 10) + 1)

\* sep.join(parts)
RECURSIVE Join(_, _)
Join(sep, parts) ==
    IF parts = <<>> THEN ""
    ELSE IF Len(parts) = 1 THEN parts[1]
    ELSE parts[1] \o sep \o Join(sep, Tail(parts))

(***************************************************************************)
(* task_parser.py: TaskDefinition and TaskGraph                            *)
(***************************************************************************)
\* TaskDefinition with is_completed set at construction
TaskDefinitionCompleted(id, title, description, depends_on, commands) ==
    [id |-> id, title |-> title, description |-> description, depends_on |-> depends_on,
     commands |-> commands, is_completed |-> TRUE]

\* TaskDefinition.__init__
TaskDefinition(id, title, description, depends_on, commands) ==
    [id |-> id, title |-> title, description |-> description, depends_on |-> depends_on,
     commands |-> commands, is_completed |-> FALSE]

\* DiGraph.add_node
AddNode(ns, n) == IF n \in Range(ns) THEN ns ELSE Append(ns, n)

\* AddEdge dropping an edge that starts at an id that is no node yet
AddEdgeFromNodes(g, u, v) ==
    IF u \notin Range(g.nodes) THEN g
    ELSE [nodes |-> AddNode(g.nodes, v),
          edges |-> IF <<u, v>> \in Range(g.edges) THEN g.edges ELSE Append(g.edges, <<u, v>>)]

\* DiGraph.add_edge: both ends become nodes, an edge is kept once
AddEdge(g, u, v) ==
    [nodes |-> AddNode(AddNode(g.nodes, u), v),
     edges |-> IF <<u, v>> \in Range(g.edges) THEN g.edges ELSE Append(g.edges, <<u, v>>)]

\* the loop of add_task over task.depends_on
RECURSIVE AddDependencies(_, _, _)
AddDependencies(g, deps, id) ==
    IF deps = <<>> THEN g
    ELSE AddDependencies(IF Head(deps) # "" THEN AddEdge(g, Head(deps), id) ELSE g,
                         Tail(deps), id)

\* TaskGraph.add_task, on the DiGraph
AddTaskGraph(g, task) ==
    AddDependencies([nodes |-> AddNode(g.nodes, task.id), edges |-> g.edges],
                    task.depends_on, task.id)

\* AddTaskMapping keeping the definition the id already has
AddTaskMappingKeepFirst(ts, task) ==
    [k \in DOMAIN ts \cup {task.id} |-> IF k \in DOMAIN ts THEN ts[k] ELSE task]

\* TaskGraph.add_task, on the tasks mapping: self.tasks[task.id] = task
AddTaskMapping(ts, task) ==
    [k \in DOMAIN ts \cup {task.id} |-> IF k = task.id THEN task ELSE ts[k]]

\* DepsCompleted with a dependency that is no task of the graph kept as unmet
DepsCompletedStrict(ts, task) ==
    \A i \in 1..Len(task.depends_on) :
        LET dep_id == task.depends_on[i] IN
        dep_id # "" => (dep_id \in DOMAIN ts /\ ts[dep_id].is_completed)

\* the all(...) of get_next_tasks
DepsCompleted(ts, task) ==
    \A i \in 1..Len(task.depends_on) :
        LET dep_id == task.depends_on[i] IN
        (dep_id # "" /\ dep_id \in DOMAIN ts) => ts[dep_id].is_completed

\* GetNextTasks handing out the first ready task alone
GetNextTasksFirstReady(ts, order) ==
    LET ready == SelectSeq(order, LAMBDA task_id :
                     ~ts[task_id].is_completed /\ DepsCompleted(ts, ts[task_id])) IN
    IF ready = <<>> THEN <<>> ELSE <<ready[1]>>

\* GetNextTasks without the test that skips a completed task
GetNextTasksNoSkip(ts, order) ==
    SelectSeq(order, LAMBDA task_id : DepsCompleted(ts, ts[task_id]))

\* TaskGraph.get_next_tasks: the loop over self.tasks.items()
GetNextTasks(ts, order) ==
    SelectSeq(order, LAMBDA task_id :
        ~ts[task_id].is_completed /\ DepsCompleted(ts, ts[task_id]))

\* MarkAsCompleted leaving the flag as it is
MarkAsCompletedNot(ts, task_id) == ts

\* MarkAsCompleted setting the flag of every task of the mapping
MarkAsCompletedEveryTask(ts, task_id) ==
    [k \in DOMAIN ts |-> [ts[k] EXCEPT !.is_completed = TRUE]]

\* TaskGraph.mark_as_completed
MarkAsCompleted(ts, task_id) ==
    IF task_id \in DOMAIN ts
    THEN [ts EXCEPT ![task_id].is_completed = TRUE]
    ELSE ts

\* HasNoTasks finding tasks in every mapping
HasNoTasksNever(ts) == FALSE

\* not self.task_graph.tasks in execute_tasks: the mapping is empty
HasNoTasks(ts) == DOMAIN ts = {}

\* AllTasksCompleted with any in place of all
AnyTaskCompleted(ts) == \E k \in DOMAIN ts : ts[k].is_completed

\* TaskGraph.all_tasks_completed
AllTasksCompleted(ts) == \A k \in DOMAIN ts : ts[k].is_completed

(***************************************************************************)
(* networkx, as get_execution_order uses it                                *)
(***************************************************************************)
NodeIndex(g, n) == CHOOSE i \in 1..Len(g.nodes) : g.nodes[i] = n

\* nx.simple_cycles: the elementary circuits, each once, from its first node
SimpleCycles(g) ==
    {c \in UNION {[1..k -> Range(g.nodes)] : k \in 1..Len(g.nodes)} :
        /\ \A i, j \in 1..Len(c) : i # j => c[i] # c[j]
        /\ \A i \in 1..(Len(c) - 1) : <<c[i], c[i + 1]>> \in Range(g.edges)
        /\ <<c[Len(c)], c[1]>> \in Range(g.edges)
        /\ \A i \in 2..Len(c) : NodeIndex(g, c[1]) < NodeIndex(g, c[i])}

\* G.in_degree(v)
InDegree(g, v) == Cardinality({e \in Range(g.edges) : e[2] = v})

\* G.neighbors(u), in adjacency order
RECURSIVE Neighbors(_, _)
Neighbors(es, u) ==
    IF es = <<>> THEN <<>>
    ELSE IF Head(es)[1] = u THEN <<Head(es)[2]>> \o Neighbors(Tail(es), u)
    ELSE Neighbors(Tail(es), u)

\* nx.topological_generations: the inner loop over the children of one node
RECURSIVE VisitChildren(_, _, _)
VisitChildren(children, indegree_map, zero_indegree) ==
    IF children = <<>>
    THEN [indegree_map |-> indegree_map, zero_indegree |-> zero_indegree]
    ELSE LET child == Head(children)
             d == indegree_map[child] - 1 IN
         VisitChildren(Tail(children),
                       [indegree_map EXCEPT ![child] = d],
                       IF d = 0 THEN Append(zero_indegree, child) ELSE zero_indegree)

\* nx.topological_generations: the loop over the nodes of one generation
RECURSIVE VisitGeneration(_, _, _, _)
VisitGeneration(g, generation, indegree_map, zero_indegree) ==
    IF generation = <<>>
    THEN [indegree_map |-> indegree_map, zero_indegree |-> zero_indegree]
    ELSE LET r == VisitChildren(Neighbors(g.edges, Head(generation)),
                                indegree_map, zero_indegree) IN
         VisitGeneration(g, Tail(generation), r.indegree_map, r.zero_indegree)

\* nx.topological_generations: the while loop; unfeasible when in-degrees remain
RECURSIVE Generations(_, _, _, _)
Generations(g, zero_indegree, indegree_map, sorted) ==
    IF zero_indegree = <<>>
    THEN [order |-> sorted,
          unfeasible |-> \E v \in DOMAIN indegree_map : indegree_map[v] > 0]
    ELSE LET r == VisitGeneration(g, zero_indegree, indegree_map, <<>>) IN
         Generations(g, r.zero_indegree, r.indegree_map, sorted \o zero_indegree)

\* nx.topological_sort
TopologicalSort(g) ==
    Generations(g,
                SelectSeq(g.nodes, LAMBDA v : InDegree(g, v) = 0),
                [v \in Range(g.nodes) |-> InDegree(g, v)],
                <<>>)

\* GetExecutionOrderRaises with a task that depends on itself let through
GetExecutionOrderRaisesNoSelfLoop(g) ==
    \E c \in SimpleCycles(g) : Len(c) > 1

\* TaskGraph.get_execution_order raises ValueError
GetExecutionOrderRaises(g) ==
    SimpleCycles(g) # {} \/ TopologicalSort(g).unfeasible

\* GetExecutionOrder returning the nodes as the graph holds them
GetExecutionOrderNodeOrder(g) == g.nodes

\* TaskGraph.get_execution_order returns
GetExecutionOrder(g) == TopologicalSort(g).order

Graph == [nodes |-> nodes, edges |-> edges]

(***************************************************************************)
(* task_executor.py: command dispatch                                      *)
(***************************************************************************)
NoDispatch ==
    [kind |-> "none", command |-> "", outcome |-> "none", runner |-> <<>>,
     out |-> "", query |-> <<>>, cb |-> <<>>, chunks |-> <<>>, console |-> <<>>,
     asked |-> FALSE, prev_dir |-> ""]

\* IsAtlasaiCommand looking at the first word of the command
IsAtlasaiCommandWord(command) == Split(Chars(command), " ", 2)[1] = Chars("atlasai")

\* command.startswith("atlasai") in execute_tasks
IsAtlasaiCommand(command) == StartsWith(Chars(command), Chars("atlasai"))

\* parts = command.split(' ', 2)
CommandParts(command) == Split(Chars(command), " ", 2)

\* not (len(parts) < 3 or parts[1] != '--query')
ValidAtlasaiFormat(parts) == ~(Len(parts) < 3 \/ parts[2] # Chars("--query"))

\* QueryOf without the strip
QueryOfUnstripped(parts) == parts[3]

\* query = parts[2].strip('"\'')
QueryOf(parts) == Strip(parts[3], {"\"", "'"})

\* CollectResponse handing the chunks over newest first
CollectResponseNewestFirst(cb_log, has_callback, chunk) ==
    IF has_callback THEN <<chunk>> \o cb_log ELSE cb_log

\* collect_response(chunk): the callback, when given, is called with the chunk
CollectResponse(cb_log, has_callback, chunk) ==
    IF has_callback THEN Append(cb_log, chunk) ELSE cb_log

\* the chunks process_query hands to collect_response, one by one
RECURSIVE StreamChunks(_, _, _)
StreamChunks(chunks, has_callback, cb_log) ==
    IF chunks = <<>> THEN cb_log
    ELSE StreamChunks(Tail(chunks), has_callback,
                      CollectResponse(cb_log, has_callback, Head(chunks)))

\* _execute_atlasai_command: chunks is what process_query streams, raises whether
\* it then raises instead of returning
AtlasaiCommand(command, has_callback, chunks, raises) ==
    LET parts == CommandParts(command) IN
    IF ~ValidAtlasaiFormat(parts)
    THEN [NoDispatch EXCEPT !.kind = "atlasai", !.command = command,
                            !.outcome = "invalid",
                            !.console = <<"executing_atlasai", "invalid_format">>]
    ELSE [NoDispatch EXCEPT !.kind = "atlasai", !.command = command,
                            !.outcome = IF raises THEN "raised" ELSE "returned",
                            !.query = <<QueryOf(parts)>>,
                            !.chunks = chunks,
                            !.cb = StreamChunks(chunks, has_callback, <<>>),
                            !.console = <<"executing_atlasai">> \o chunks]

\* IsRestricted looking for "Error" alone
IsRestrictedAnyError(text) == Contains(Chars(text), Chars("Error"))

\* "Error" in result and "not allowed" in result
IsRestricted(text) ==
    Contains(Chars(text), Chars("Error")) /\ Contains(Chars(text), Chars("not allowed"))

\* if callback: callback(x)
CallbackWith(has_callback, x) == IF has_callback THEN <<x>> ELSE <<>>

\* AbsPath leaving the path as it was given
AbsPathUnchanged(base, path) == path

\* os.path.abspath(path) while the current directory is base: an absolute path
\* stays, "." is the current directory, any other path is joined to it
AbsPath(base, path) ==
    IF StartsWithAt(path, "/", 1) THEN path
    ELSE IF path = "." THEN base
    ELSE base \o "/" \o path

\* RestoreDir as an else clause: nothing is restored when the runner raised
RestoreDirOnReturn(prev_dir, run_dir, raised) == IF raised THEN run_dir ELSE prev_dir

\* the finally clause of _execute_system_command: os.chdir(prev_dir)
RestoreDir(prev_dir, run_dir, raised) == prev_dir

\* _execute_system_command: chdir_ok whether os.chdir(self.working_dir) succeeds,
\* out what execute_command returns ("raise": it raises), answer what the
\* operator answers when asked
SystemCommand(command, has_callback, verify, prev_dir, run_dir, chdir_ok, out, answer) ==
    LET base == [NoDispatch EXCEPT !.kind = "system", !.command = command,
                                   !.prev_dir = prev_dir]
        call == <<[commands |-> <<command>>, cwd |-> run_dir]>> IN
    IF ~chdir_ok
    THEN [base EXCEPT !.outcome = "chdir_raised", !.console = <<"executing">>]
    ELSE IF out = "raise"
    THEN [base EXCEPT !.outcome = "raised", !.runner = call, !.out = out,
                      !.console = <<"executing", "error_executing">>,
                      !.cb = CallbackWith(has_callback, ExcText)]
    ELSE IF IsRestricted(out)
    THEN [base EXCEPT !.outcome = "restricted", !.runner = call, !.out = out,
                      !.asked = verify,
                      !.console = <<"executing", "command_restricted">> \o
                                  (IF verify /\ answer THEN <<"override_not_implemented">>
                                   ELSE <<>>),
                      !.cb = CallbackWith(has_callback, out)]
    ELSE [base EXCEPT !.outcome = IF out = OutNormal THEN "output" ELSE "failed",
                      !.runner = call, !.out = out,
                      !.console = <<"executing", "command_output">>,
                      !.cb = CallbackWith(has_callback, out)]

(***************************************************************************)
(* task_parser.py: parse_task_file, the regular expressions as re runs     *)
(* them                                                                    *)
(***************************************************************************)
\* the Python values of a metadata: None, a str, a bool, an int, a date, a dict
PyNone == [type |-> "NoneType", text |-> ""]
PyStr(s) == [type |-> "str", text |-> s]
PyDict(items) == [type |-> "dict", items |-> items]

\* d[key] = value on the items of a dict
SetItem(items, key, value) ==
    [k \in DOMAIN items \cup {key} |-> IF k = key THEN value ELSE items[k]]

\* s.replace(old, "")
RECURSIVE Remove(_, _)
Remove(s, old) ==
    LET i == Find(s, old, 1) IN
    IF i = 0 THEN s
    ELSE SubSeq(s, 1, i - 1) \o Remove(From(s, i + Len(old)), old)

\* [line.strip() for line in text.split('\n') if line.strip()]
StrippedLines(text) ==
    LET text_lines == SplitStr(text, "\n") IN
    SelectSeq([k \in 1..Len(text_lines) |-> StripStr(text_lines[k])],
              LAMBDA line : line # "")

\* re.search(r'## Metadata\s*\n(.*?)(?=##)', content, re.DOTALL) tried at place
\* i: the greedy \s* ends before the last newline of the white space behind the
\* heading, the group runs from there to the next "##"
MetadataMatchAt(content, i) ==
    LET e == i + Len("## Metadata")
        w == SkipChars(content, Whitespace, e)
        newlines == {j \in e..(w - 1) : CharAt(content, j) = "\n"} IN
    IF ~StartsWithAt(content, "## Metadata", i) \/ newlines = {} THEN [ok |-> FALSE]
    ELSE LET from == SetMax(newlines) + 1
             f == Find(content, "##", from) IN
         IF f = 0 THEN [ok |-> FALSE]
         ELSE [ok |-> TRUE, text |-> SubSeq(content, from, f - 1)]

\* metadata_match: the first place the pattern matches at
MetadataMatch(content) ==
    LET starts == {i \in 1..Len(content) : MetadataMatchAt(content, i).ok} IN
    IF starts = {} THEN [ok |-> FALSE] ELSE MetadataMatchAt(content, SetMin(starts))

\* yaml_text, line by line: the stripped non-blank lines without their "- "
YamlLines(metadata_text) ==
    LET kept == StrippedLines(metadata_text) IN
    [k \in 1..Len(kept) |-> Remove(kept[k], "- ")]

Digits == {CharAt("0123456789", i) : i \in 1..10}
AllDigits(s, a, b) == \A i \in a..b : CharAt(s, i) \in Digits

\* the value yaml resolves a plain scalar to: null, bool, int, date or str
YamlScalar(text) ==
    IF text \in {"", "null", "Null", "NULL"} THEN PyNone
    ELSE IF text \in {"true", "True", "TRUE", "yes", "Yes", "YES", "on", "On", "ON"}
    THEN [type |-> "bool", text |-> "True"]
    ELSE IF text \in {"false", "False", "FALSE", "no", "No", "NO", "off", "Off", "OFF"}
    THEN [type |-> "bool", text |-> "False"]
    ELSE IF AllDigits(text, 1, Len(text)) THEN [type |-> "int", text |-> text]
    ELSE IF /\ Len(text) = 10
            /\ AllDigits(text, 1, 4) /\ CharAt(text, 5) = "-"
            /\ AllDigits(text, 6, 7) /\ CharAt(text, 8) = "-"
            /\ AllDigits(text, 9, 10)
    THEN [type |-> "date", text |-> text]
    ELSE PyStr(text)

\* where the ": " or the final ":" of a "key: value" line stands, 0 on a line
\* that is a plain scalar
KeyEnd(line) ==
    LET c == Find(line, ": ", 1) IN
    IF c # 0 THEN c
    ELSE IF Len(line) > 0 /\ CharAt(line, Len(line)) = ":" THEN Len(line) ELSE 0

\* the block mapping of the lines, a later key replacing an earlier one
RECURSIVE YamlMapping(_, _)
YamlMapping(yaml_lines, items) ==
    IF yaml_lines = <<>> THEN items
    ELSE LET line == Head(yaml_lines)
             c == KeyEnd(line) IN
         YamlMapping(Tail(yaml_lines),
                     SetItem(items, SubSeq(line, 1, c - 1),
                             YamlScalar(StripStr(From(line, c + 1)))))

\* yaml.safe_load of lines of words that all start in the first column: nothing
\* loads as None, "key: value" lines as a dict, lines without a key as one plain
\* scalar folded with blanks; a plain line among "key: value" lines and a
\* value with a ": " of its own are YAMLErrors
YamlSafeLoad(yaml_lines) ==
    LET keyed == {k \in 1..Len(yaml_lines) : KeyEnd(yaml_lines[k]) > 1}
        plain == {k \in 1..Len(yaml_lines) : KeyEnd(yaml_lines[k]) = 0}
        nested == {k \in keyed :
                      KeyEnd(StripStr(From(yaml_lines[k], KeyEnd(yaml_lines[k]) + 1))) # 0} IN
    IF yaml_lines = <<>> THEN [raised |-> FALSE, value |-> PyNone]
    ELSE IF plain = 1..Len(yaml_lines)
    THEN [raised |-> FALSE, value |-> YamlScalar(Join(" ", yaml_lines))]
    ELSE IF keyed = 1..Len(yaml_lines) /\ nested = {}
    THEN [raised |-> FALSE, value |-> PyDict(YamlMapping(yaml_lines, <<>>))]
    ELSE [raised |-> TRUE]

\* the except clause: every stripped line with a colon sets metadata[key] = value
RECURSIVE MetadataScan(_, _)
MetadataScan(metadata_lines, items) ==
    IF metadata_lines = <<>> THEN items
    ELSE LET line == Head(metadata_lines)
             c == Find(line, ":", 1) IN
         MetadataScan(Tail(metadata_lines),
                      IF c = 0 THEN items
                      ELSE SetItem(items, StripStr(SubSeq(line, 1, c - 1)),
                                   PyStr(StripStr(From(line, c + 1)))))

\* the metadata section of parse_task_file: what task_graph.metadata holds
\* after it, initial being the dict a new TaskGraph has
ParseMetadata(content, initial) ==
    LET metadata_match == MetadataMatch(content) IN
    IF ~metadata_match.ok THEN initial
    ELSE LET loaded == YamlSafeLoad(YamlLines(metadata_match.text)) IN
         IF ~loaded.raised THEN loaded.value
         ELSE PyDict(MetadataScan(StrippedLines(metadata_match.text), initial.items))

\* the lookahead \[\s*TASK at place j
TaskMarkerAt(s, j) ==
    CharAt(s, j) = "[" /\ StartsWithAt(s, "TASK", SkipChars(s, Whitespace, j + 1))

\* where the lazy (.*?) of task_pattern stops when it starts at place from: the
\* first place where (?=\[\s*TASK|$) holds; $ holds at the end of the text and
\* before a newline that ends it
TaskContentEnd(s, from) ==
    LET markers == {j \in from..Len(s) : TaskMarkerAt(s, j)}
        ends == {Len(s) + 1} \cup
                (IF Len(s) >= from /\ CharAt(s, Len(s)) = "\n" THEN {Len(s)} ELSE {}) IN
    SetMin(markers \cup ends)

\* task_pattern tried at place i: \[TASK id="([^"]+)" depends="([^"]*)"\](.*?)
\* with the three groups and the end of the match
TaskPatternAt(s, i) ==
    LET id_from == i + Len("[TASK id=\"")
        id_to == Find(s, "\"", id_from)
        dep_from == id_to + Len("\" depends=\"")
        dep_to == Find(s, "\"", dep_from)
        ok == /\ StartsWithAt(s, "[TASK id=\"", i)
              /\ id_to > id_from
              /\ StartsWithAt(s, "\" depends=\"", id_to)
              /\ dep_to # 0
              /\ StartsWithAt(s, "\"]", dep_to) IN
    IF ~ok THEN [ok |-> FALSE]
    ELSE LET content_to == TaskContentEnd(s, dep_to + 2) IN
         [ok |-> TRUE,
          task_id |-> SubSeq(s, id_from, id_to - 1),
          depends_str |-> SubSeq(s, dep_from, dep_to - 1),
          task_content |-> StripStr(SubSeq(s, dep_to + 2, content_to - 1)),
          end |-> content_to]

\* ParseDependsOn keeping the tokens as they stand between the commas
ParseDependsOnUntrimmed(depends_str) ==
    LET parts == SplitStr(depends_str, ",") IN
    SelectSeq(parts, LAMBDA dep : StripStr(dep) # "")

\* depends_on = [dep.strip() for dep in depends_str.split(',') if dep.strip()]
ParseDependsOn(depends_str) ==
    LET parts == SplitStr(depends_str, ",") IN
    SelectSeq([k \in 1..Len(parts) |-> StripStr(parts[k])], LAMBDA dep : dep # "")

\* the title: re.search(r'###\s*(.*?)$', task_content, re.MULTILINE), stripped, or
\* "Task " + task_id
ParseTitle(task_content, task_id) ==
    LET i == Find(task_content, "###", 1) IN
    IF i = 0 THEN "Task " \o task_id
    ELSE LET a == SkipChars(task_content, Whitespace, i + 3)
             eol == Find(task_content, "\n", a)
             to == IF eol = 0 THEN Len(task_content) + 1 ELSE eol IN
         StripStr(SubSeq(task_content, a, to - 1))

\* re.sub(r'###\s*.*?\n', '', task_content, 1): the first heading is cut out up to
\* the end of the line its text stands on
RemoveHeading(task_content) ==
    LET i == Find(task_content, "###", 1) IN
    IF i = 0 \/ Find(task_content, "\n", i + 3) = 0 THEN task_content
    ELSE LET a == SkipChars(task_content, Whitespace, i + 3)
             eol == Find(task_content, "\n", a)
             to == IF eol # 0 THEN eol
                   ELSE SetMax({j \in (i + 3)..(a - 1) : CharAt(task_content, j) = "\n"}) IN
         SubSeq(task_content, 1, i - 1) \o From(task_content, to + 1)

\* ParseDescription of the task content as it stands, the heading in it
ParseDescriptionKeepHeading(task_content) ==
    LET f == Find(task_content, Fence, 1) IN
    StripStr(IF f = 0 THEN task_content ELSE SubSeq(task_content, 1, f - 1))

\* description = re.split(r'```', desc_text, 1)[0].strip()
ParseDescription(task_content) ==
    LET desc_text == RemoveHeading(task_content)
        f == Find(desc_text, Fence, 1) IN
    StripStr(IF f = 0 THEN desc_text ELSE SubSeq(desc_text, 1, f - 1))

\* [cmd.strip() for cmd in block.strip().split('\n') if cmd.strip()]
BlockCommands(block) ==
    LET cmd_lines == SplitStr(StripStr(block), "\n") IN
    SelectSeq([k \in 1..Len(cmd_lines) |-> StripStr(cmd_lines[k])], LAMBDA cmd : cmd # "")

\* the loop over re.finditer(r'```(?:\w+)?\s*(.*?)```', task_content, re.DOTALL)
\* from place pos on
RECURSIVE ParseCommands(_, _)
ParseCommands(task_content, pos) ==
    LET f == Find(task_content, Fence, pos) IN
    IF f = 0 THEN <<>>
    ELSE LET w == SkipChars(task_content, WordChars, f + 3)
             a == SkipChars(task_content, Whitespace, w)
             close == Find(task_content, Fence, a) IN
         IF close = 0 THEN <<>>
         ELSE BlockCommands(SubSeq(task_content, a, close - 1))
                  \o ParseCommands(task_content, close + 3)

\* the body of the loop over task_matches up to the TaskDefinition
ParseTask(match) ==
    TaskDefinition(match.task_id,
                   ParseTitle(match.task_content, match.task_id),
                   ParseDescription(match.task_content),
                   ParseDependsOn(match.depends_str),
                   ParseCommands(match.task_content, 1))

\* ParseTasks looking for the next task one place after the end of a match
RECURSIVE ParseTasksSkipAhead(_, _)
ParseTasksSkipAhead(content, pos) ==
    LET starts == {i \in pos..Len(content) : TaskPatternAt(content, i).ok} IN
    IF starts = {} THEN <<>>
    ELSE LET match == TaskPatternAt(content, SetMin(starts)) IN
         <<ParseTask(match)>> \o ParseTasksSkipAhead(content, match.end + 1)

\* re.finditer(task_pattern, content, re.DOTALL) from place pos on: the tasks of
\* the document, in order
RECURSIVE ParseTasks(_, _)
ParseTasks(content, pos) ==
    LET starts == {i \in pos..Len(content) : TaskPatternAt(content, i).ok} IN
    IF starts = {} THEN <<>>
    ELSE LET match == TaskPatternAt(content, SetMin(starts)) IN
         <<ParseTask(match)>> \o ParseTasks(content, match.end)

(***************************************************************************)
(* task_executor.py: generate_task_template                                *)
(***************************************************************************)
\* the text before the example tasks; today is strftime("%Y-%m-%d") of the clock
TemplateHead(today) ==
    "# AtlasAI Task: My Project Workflow\n"
    \o "\n"
    \o "## Metadata\n"
    \o "- author: Your Name\n"
    \o "- date: " \o today \o "\n"
    \o "- priority: high\n"
    \o "- allow_file_operations: true\n"
    \o "\n"
    \o "## Description\n"
    \o "This is a template task workflow. Edit this description to explain what this workflow will accomplish.\n"
    \o "Replace the task definitions below with your actual tasks.\n"
    \o "\n"
    \o "## Tasks\n"

\* the block of example task i
TemplateTask(i) ==
    LET task_id == "task" \o IntStr(i)
        depends == IF i > 1 THEN "task" \o IntStr(i - 1) ELSE "" IN
    "\n"
    \o IntStr(i) \o ". [TASK id=\"" \o task_id \o "\" depends=\"" \o depends \o "\"]\n"
    \o "   ### Task " \o IntStr(i) \o " Title\n"
    \o "   Description of task " \o IntStr(i)
        \o ". Explain what this task does and why it's important.\n"
    \o "   \n"
    \o "   " \o Fence \o "bash\n"
    \o "   # Replace with actual commands for this task\n"
    \o "   echo \"Executing task " \o IntStr(i) \o "\"\n"
    \o "   " \o Fence \o "\n"
    \o "\n"

\* the loop over range(1, num_tasks + 1), from task i on
RECURSIVE TemplateTasks(_, _)
TemplateTasks(i, num_tasks) ==
    IF i > num_tasks THEN "" ELSE TemplateTask(i) \o TemplateTasks(i + 1, num_tasks)

\* ", ".join([f"task{i}" for i in range(1, num_tasks)])
FinalDependencies(num_tasks) ==
    Join(", ", [i \in 1..(num_tasks - 1) |-> "task" \o IntStr(i)])

\* the final task, added if num_tasks > 2
FinalBlock(num_tasks) ==
    IF num_tasks > 2
    THEN "\n"
         \o IntStr(num_tasks + 1) \o ". [TASK id=\"final\" depends=\""
             \o FinalDependencies(num_tasks) \o "\"]\n"
         \o "   ### Final Task\n"
         \o "   This task depends on all previous tasks and runs only when they are complete.\n"
         \o "   \n"
         \o "   " \o Fence \o "bash\n"
         \o "   # Replace with your final commands\n"
         \o "   echo \"All tasks completed, running final task\"\n"
         \o "   " \o Fence \o "\n"
    ELSE ""

\* the comments at the end
TemplateNotes ==
    "\n"
    \o "## Notes\n"
    \o "- Each task must have a unique ID\n"
    \o "- The \"depends\" attribute lists the IDs of tasks that must complete before this task\n"
    \o "- Multiple dependencies should be comma-separated\n"
    \o "- Commands are executed in the order they appear\n"
    \o "- Use atlasai commands for AI-powered operations\n"

\* generate_task_template(num_tasks)
GenerateTaskTemplate(num_tasks, today) ==
    TemplateHead(today) \o TemplateTasks(1, num_tasks) \o FinalBlock(num_tasks)
        \o TemplateNotes

(***************************************************************************)
(* Task files as an author writes them, in the format parse_task_file reads *)
(***************************************************************************)
\* a task block: the marker line and the body
TaskBlock(id, depends, body) ==
    "[TASK id=\"" \o id \o "\" depends=\"" \o depends \o "\"]\n" \o body

\* a task file: the title, the metadata section, the tasks section
TaskFile(metadata_text, blocks) ==
    "# Workflow\n\n## Metadata\n" \o metadata_text \o "\n## Tasks\n\n" \o blocks

\* a body with a heading, a description and one fenced command
PlainBody == "### Build\nwhat the task does\n\n" \o Fence \o "bash\necho a\n" \o Fence \o "\n\n"

PlainMetadata == "- author: Ann\n"

\* the depends attribute written from the items
DependsAttribute(items) ==
    Join(",", [k \in 1..Len(items) |-> items[k].pre \o items[k].token \o items[k].post])

\* the lines of a block, each behind the indentation
RECURSIVE BlockLinesText(_, _)
BlockLinesText(indent, lines) ==
    IF lines = <<>> THEN ""
    ELSE indent \o Head(lines).pre \o Head(lines).text \o Head(lines).post \o "\n"
         \o BlockLinesText(indent, Tail(lines))

\* a fenced block: the opening fence with its language tag, the lines, the
\* closing fence
BlockText(indent, block) ==
    indent \o Fence \o block.tag \o "\n" \o BlockLinesText(indent, block.lines)
    \o indent \o Fence \o "\n"

\* a body: the heading line, the narrative, the blocks with the text between
\* them
BodyText(indent, title, narrative, blocks, between) ==
    indent \o "### " \o title \o "\n"
    \o (IF narrative = "" THEN "" ELSE indent \o narrative \o "\n")
    \o "\n"
    \o Join(IF between = "" THEN "" ELSE indent \o between,
            [k \in 1..Len(blocks) |-> BlockText(indent, blocks[k])])
    \o "\n"

(***************************************************************************)
(* The state machine                                                       *)
(***************************************************************************)
Init ==
    /\ tasks = <<>>
    /\ taskOrder = <<>>
    /\ nodes = <<>>
    /\ edges = <<>>
    /\ nAdds = 0
    /\ added = <<>>
    /\ pc = "build"
    /\ result = "pending"
    /\ stop = "none"
    /\ agent = FALSE
    /\ execution_order = <<>>
    /\ working_dir = StartDir
    /\ verify_commands = TRUE
    /\ callback = FALSE
    /\ cwd = StartDir
    /\ next_tasks = <<>>
    /\ ti = 0
    /\ ci = 0
    /\ runnerCalls = 0
    /\ queryCalls = 0
    /\ flips = [t \in TaskIds |-> 0]
    /\ last = NoDispatch
    /\ round = 0
    /\ ran_round = [t \in TaskIds |-> 0]
    /\ dispatches = [t \in TaskIds |-> <<>>]
    /\ task_file = ""
    /\ template_tasks = 0
    /\ parsed = FALSE
    /\ authored = <<>>
    /\ metadata = PyDict(<<>>)

\* TaskGraph.add_task(TaskDefinition(id, title, description, depends_on, commands))
AddTask(id, title, description, depends_on, commands) ==
    /\ pc = "build"
    /\ nAdds < MaxAdds
    /\ LET task == TaskDefinition(id, title, description, depends_on, commands)
           g == AddTaskGraph(Graph, task) IN
       /\ tasks' = AddTaskMapping(tasks, task)
       /\ taskOrder' = IF id \in DOMAIN tasks THEN taskOrder ELSE Append(taskOrder, id)
       /\ nodes' = g.nodes
       /\ edges' = g.edges
       /\ added' = task
    /\ nAdds' = nAdds + 1
    /\ UNCHANGED <<cfgVars, runVars, fileVars>>

\* TaskExecutor(task_graph, wd, verify_commands = vc) and execute_tasks(callback) up
\* to the while loop
ExecuteTasks(wd, vc, cb) ==
    /\ pc = "build"
    /\ working_dir' = AbsPath(cwd, wd)
    /\ verify_commands' = vc
    /\ callback' = cb
    /\ IF HasNoTasks(tasks)
       THEN /\ result' = "False"
            /\ stop' = "no_tasks"
            /\ pc' = "done"
            /\ UNCHANGED <<agent, execution_order>>
       ELSE /\ agent' = TRUE
            /\ IF GetExecutionOrderRaises(Graph)
               THEN /\ result' = "False"
                    /\ stop' = "cycle"
                    /\ pc' = "done"
                    /\ UNCHANGED execution_order
               ELSE /\ execution_order' = GetExecutionOrder(Graph)
                    /\ pc' = "loop"
                    /\ UNCHANGED <<result, stop>>
    /\ UNCHANGED <<fileVars, graphVars, next_tasks, ti, ci, runnerCalls, queryCalls, flips, last, cwd,
                   round, ran_round, dispatches>>

\* the head of the while loop: all_tasks_completed, get_next_tasks, the stuck test
LoopHead ==
    /\ pc = "loop"
    /\ IF AllTasksCompleted(tasks)
       THEN /\ result' = "True"
            /\ stop' = "success"
            /\ pc' = "done"
            /\ UNCHANGED <<next_tasks, ti, ci, round>>
       ELSE LET ready == GetNextTasks(tasks, taskOrder) IN
            IF ready = <<>>
            THEN /\ result' = "False"
                 /\ stop' = "stuck"
                 /\ pc' = "done"
                 /\ UNCHANGED <<next_tasks, ti, ci, round>>
            ELSE /\ next_tasks' = ready
                 /\ round' = round + 1
                 /\ ti' = 1
                 /\ ci' = 1
                 /\ pc' = "task"
                 /\ UNCHANGED <<result, stop>>
    /\ UNCHANGED <<fileVars, graphVars, cfgVars, agent, execution_order, runnerCalls, queryCalls,
                   flips, last, cwd, ran_round, dispatches>>

CurrentTask == tasks[next_tasks[ti]]
CurrentCommand == CurrentTask.commands[ci]
AtCommand == pc = "task" /\ ci <= Len(CurrentTask.commands)

\* DispatchEscapes with a restricted command and a malformed AI-directed command
\* raising as well
DispatchEscapesOnFailure(d) ==
    \/ d.kind = "atlasai" /\ d.outcome \in {"raised", "invalid"}
    \/ d.kind = "system" /\ d.outcome \in {"chdir_raised", "restricted"}

\* the exceptions no handler of the dispatch catches: process_query raising
\* (_execute_atlasai_command has no try) and os.chdir(self.working_dir) raising
\* (it precedes the try of _execute_system_command)
DispatchEscapes(d) ==
    \/ d.kind = "atlasai" /\ d.outcome = "raised"
    \/ d.kind = "system" /\ d.outcome = "chdir_raised"

\* what execute_tasks does once a dispatch is over: the next command, or the
\* except clause when an exception escaped the dispatch
AfterDispatch(d) ==
    /\ last' = d
    /\ runnerCalls' = runnerCalls + Len(d.runner)
    /\ queryCalls' = queryCalls + Len(d.query)
    /\ IF DispatchEscapes(d)
       THEN /\ result' = "False"
            /\ stop' = "exception"
            /\ pc' = "done"
            /\ UNCHANGED ci
       ELSE /\ ci' = ci + 1
            /\ UNCHANGED <<result, stop, pc>>
    /\ dispatches' = [dispatches EXCEPT ![next_tasks[ti]] = Append(@, d.command)]
    /\ UNCHANGED <<fileVars, graphVars, cfgVars, agent, execution_order, next_tasks, ti, flips,
                   round, ran_round>>

\* one command of the current task that starts with "atlasai"
ExecuteAtlasaiCommand ==
    /\ AtCommand
    /\ IsAtlasaiCommand(CurrentCommand)
    /\ \E chunks \in ChunkSeqs, raises \in BOOLEAN :
          AfterDispatch(AtlasaiCommand(CurrentCommand, callback, chunks, raises))
    /\ UNCHANGED cwd

\* one other command of the current task
ExecuteSystemCommand ==
    /\ AtCommand
    /\ ~IsAtlasaiCommand(CurrentCommand)
    /\ \E chdir_ok \in BOOLEAN, out \in RunnerResults \cup {"raise"}, answer \in BOOLEAN :
          /\ AfterDispatch(SystemCommand(CurrentCommand, callback, verify_commands,
                                         cwd, working_dir, chdir_ok, out, answer))
          /\ cwd' = IF chdir_ok
                    THEN RestoreDir(cwd, working_dir, out = "raise")
                    ELSE cwd

\* after the last command of the current task: mark_as_completed, the next task
\* of the round or back to the head of the loop
CompleteTask ==
    /\ pc = "task"
    /\ ci > Len(CurrentTask.commands)
    /\ LET task_id == next_tasks[ti] IN
       /\ tasks' = MarkAsCompleted(tasks, task_id)
       /\ flips' = [flips EXCEPT ![task_id] =
                      IF ~tasks[task_id].is_completed /\ tasks'[task_id].is_completed
                      THEN @ + 1 ELSE @]
       /\ ran_round' = [ran_round EXCEPT ![task_id] = round]
    /\ IF ti < Len(next_tasks)
       THEN /\ ti' = ti + 1
            /\ ci' = 1
            /\ UNCHANGED pc
       ELSE /\ pc' = "loop"
            /\ UNCHANGED <<ti, ci>>
    /\ UNCHANGED <<fileVars, taskOrder, nodes, edges, nAdds, added, cfgVars, result, stop, agent,
                   execution_order, next_tasks, runnerCalls, queryCalls, last, cwd, round,
                   dispatches>>

Build ==
    \E id \in TaskIds, title \in RunTitles, description \in RunDescriptions,
       depends_on \in DependsOnLists, commands \in CommandLists :
        AddTask(id, title, description, depends_on, commands)

\* add_task with any title and description
BuildTitled ==
    \E id \in TaskIds, text \in TaskTexts,
       depends_on \in DependsOnLists, commands \in {<<>>, <<CmdEcho>>} :
        AddTask(id, text.title, text.description, depends_on, commands)

\* add_task of a task with one command around the marker
BuildMarker ==
    \E id \in TaskIds, command \in MarkerCommands :
        AddTask(id, "Build", "what the task does", <<>>, <<command>>)

Call ==
    \E wd \in Dirs, vc \in BOOLEAN, cb \in BOOLEAN : ExecuteTasks(wd, vc, cb)

Run == LoopHead \/ ExecuteAtlasaiCommand \/ ExecuteSystemCommand \/ CompleteTask

Next == Build \/ Call \/ LoopHead \/ ExecuteAtlasaiCommand \/ ExecuteSystemCommand
        \/ CompleteTask

Spec == Init /\ [][Next]_vars

\* task_template_command: the generated template becomes the task file
WriteTemplate(tasks_option, today) ==
    /\ pc = "build"
    /\ task_file = ""
    /\ nAdds = 0
    /\ task_file' = GenerateTaskTemplate(tasks_option, today)
    /\ template_tasks' = tasks_option
    /\ UNCHANGED <<parsed, authored, metadata, graphVars, cfgVars, runVars>>

\* the add_task calls of parse_task_file, one per parsed task
RECURSIVE AddTasks(_, _)
AddTasks(g, defs) ==
    IF defs = <<>> THEN g
    ELSE LET task == Head(defs)
             dg == AddTaskGraph([nodes |-> g.nodes, edges |-> g.edges], task) IN
         AddTasks([tasks |-> AddTaskMapping(g.tasks, task),
                   taskOrder |-> IF task.id \in DOMAIN g.tasks THEN g.taskOrder
                                 ELSE Append(g.taskOrder, task.id),
                   nodes |-> dg.nodes,
                   edges |-> dg.edges],
                  Tail(defs))

\* task_graph.metadata.get(key, default) in task_command: only a dict has get
MetadataGet(md, key, default) ==
    IF md.type # "dict" THEN [raised |-> TRUE]
    ELSE [raised |-> FALSE,
          value |-> IF key \in DOMAIN md.items THEN md.items[key] ELSE PyStr(default)]

\* task_command: task_graph = parse_task_file(task_file), on a fresh TaskGraph,
\* and the title and task count it shows; when the title lookup raises, the
\* except clause of task_command ends the command before any executor exists
ParseTaskFile ==
    /\ pc = "build"
    /\ task_file # ""
    /\ ~parsed
    /\ nAdds = 0
    /\ LET defs == ParseTasks(task_file, 1)
           g == AddTasks([tasks |-> <<>>, taskOrder |-> <<>>, nodes |-> <<>>,
                          edges |-> <<>>], defs) IN
       /\ tasks' = g.tasks
       /\ taskOrder' = g.taskOrder
       /\ nodes' = g.nodes
       /\ edges' = g.edges
       /\ nAdds' = Len(defs)
       /\ added' = IF defs = <<>> THEN <<>> ELSE defs[Len(defs)]
       /\ flips' = [t \in TaskIds \cup DOMAIN g.tasks |-> 0]
       /\ ran_round' = [t \in TaskIds \cup DOMAIN g.tasks |-> 0]
       /\ dispatches' = [t \in TaskIds \cup DOMAIN g.tasks |-> <<>>]
    /\ parsed' = TRUE
    /\ metadata' = ParseMetadata(task_file, PyDict(<<>>))
    /\ IF MetadataGet(metadata', "title", "Untitled").raised
       THEN /\ pc' = "done"
            /\ stop' = "lookup_raised"
       ELSE UNCHANGED <<pc, stop>>
    /\ UNCHANGED <<task_file, template_tasks, authored, cfgVars, result, agent, execution_order,
                   next_tasks, ti, ci, runnerCalls, queryCalls, last, cwd, round>>

NextMarker == BuildMarker \/ Call \/ LoopHead \/ ExecuteAtlasaiCommand \/ ExecuteSystemCommand
              \/ CompleteTask

\* runs of tasks whose commands are around the marker
SpecMarker == Init /\ [][NextMarker]_vars

\* the author saves a task file
WriteTaskFile(text, parts) ==
    /\ pc = "build"
    /\ task_file = ""
    /\ nAdds = 0
    /\ task_file' = text
    /\ authored' = parts
    /\ UNCHANGED <<template_tasks, parsed, metadata, graphVars, cfgVars, runVars>>

\* task files whose first task has any depends attribute
DependsFiles ==
    \E items \in DepItemLists :
        WriteTaskFile(TaskFile(PlainMetadata,
                               TaskBlock("t1", DependsAttribute(items), PlainBody)
                               \o TaskBlock("t2", "", PlainBody)),
                      [kind |-> "depends", items |-> items])

\* task files whose first task has any body
BodyFiles ==
    \E indent \in Indents, narrative \in Narratives, blocks \in BlockLists,
       between \in Betweens :
        WriteTaskFile(TaskFile(PlainMetadata,
                               TaskBlock("t1", "", BodyText(indent, "Build", narrative,
                                                            blocks, between))
                               \o TaskBlock("t2", "t1", PlainBody)),
                      [kind |-> "body", narrative |-> narrative, blocks |-> blocks,
                       between |-> between])

NextBody == BodyFiles \/ ParseTaskFile

\* task files with any body, parsed
SpecBody == Init /\ [][NextBody]_vars

\* the text of the metadata section: the lines and a blank line
RECURSIVE MetadataText(_)
MetadataText(metadata_lines) ==
    IF metadata_lines = <<>> THEN ""
    ELSE Head(metadata_lines) \o "\n" \o MetadataText(Tail(metadata_lines))

\* task files with any metadata section
MetadataFiles ==
    \E metadata_lines \in MetadataLineLists :
        WriteTaskFile(TaskFile(MetadataText(metadata_lines), TaskBlock("t1", "", PlainBody)),
                      [kind |-> "metadata", lines |-> metadata_lines])

NextMetadata == MetadataFiles \/ ParseTaskFile

\* task files with any metadata section, parsed
SpecMetadata == Init /\ [][NextMetadata]_vars

\* the blocks of the tasks ids, each with the dependencies deps gives it
RECURSIVE RoundBlocks(_, _)
RoundBlocks(ids, deps) ==
    IF ids = <<>> THEN ""
    ELSE TaskBlock(Head(ids),
                   Join(", ", SelectSeq(RoundIds, LAMBDA d : d \in deps[Head(ids)])),
                   PlainBody)
         \o RoundBlocks(Tail(ids), deps)

\* task files of three tasks with any dependencies among them
RoundFiles ==
    \E deps \in RoundDepends :
        WriteTaskFile(TaskFile(PlainMetadata, RoundBlocks(RoundIds, deps)),
                      [kind |-> "rounds", deps |-> deps])

NextRounds == RoundFiles \/ ParseTaskFile \/ Call \/ LoopHead \/ ExecuteSystemCommand
              \/ CompleteTask

\* three-task files, parsed and run
SpecRounds == Init /\ [][NextRounds]_vars

NextDepends == DependsFiles \/ ParseTaskFile

\* task files with any depends attribute, parsed
SpecDepends == Init /\ [][NextDepends]_vars

Template == \E tasks_option \in 0..MaxTemplateTasks, today \in Dates :
                WriteTemplate(tasks_option, today)

NextTemplate == Template \/ ParseTaskFile \/ Call \/ LoopHead \/ ExecuteSystemCommand
                \/ CompleteTask

\* a generated template, parsed and run
SpecTemplate == Init /\ [][NextTemplate]_vars

\* a caller of the TaskGraph marks any id completed
MarkCall(task_id) ==
    /\ pc = "build"
    /\ tasks' = MarkAsCompleted(tasks, task_id)
    /\ flips' = [t \in TaskIds |->
                   IF t = task_id /\ t \in DOMAIN tasks /\ ~tasks[t].is_completed
                   THEN flips[t] + 1 ELSE flips[t]]
    /\ UNCHANGED <<fileVars, taskOrder, nodes, edges, nAdds, added, cfgVars, pc, result, stop, agent,
                   execution_order, next_tasks, ti, ci, runnerCalls, queryCalls, last, cwd,
                   round, ran_round, dispatches>>

Mark == \E task_id \in TaskIds \cup {AbsentId} : MarkCall(task_id)

NextGraph == BuildTitled \/ Mark

\* the TaskGraph alone, under any sequence of add_task and mark_as_completed calls
SpecGraph == Init /\ [][NextGraph]_vars

(***************************************************************************)
(* Claims                                                                  *)
(***************************************************************************)
Registered == DOMAIN tasks
Completed(t) == t \in Registered /\ tasks[t].is_completed

\* the transitive closure of a relation
RECURSIVE Closure(_)
Closure(R) ==
    LET R2 == R \cup {<<x[1][1], x[2][2]>> : x \in {y \in R \X R : y[1][2] = y[2][1]}} IN
    IF R2 = R THEN R ELSE Closure(R2)

\* the edge relation of the graph contains a cycle
EdgeRelationHasCycle == \E e \in Closure(Range(edges)) : e[1] = e[2]

\* C1: when the edge relation of the graph contains a cycle (a task that depends
\* on itself included), execute_tasks invokes neither the shell runner nor the
\* query capability, marks no task completed and returns false.
C1_CycleRunsNothing ==
    (pc # "build" /\ EdgeRelationHasCycle) =>
        /\ pc = "done"
        /\ result = "False"
        /\ runnerCalls = 0
        /\ queryCalls = 0
        /\ last = NoDispatch
        /\ \A t \in Registered : ~tasks[t].is_completed

\* a run on a graph of two tasks, each with commands, one with a cyclic dependency
C1_Witness ==
    /\ pc = "done"
    /\ stop = "cycle"
    /\ EdgeRelationHasCycle
    /\ Registered = TaskIds
    /\ \A t \in Registered : tasks[t].commands # <<>>
    /\ \E t \in Registered : tasks[t].depends_on = <<>>

\* C2: get_next_tasks returns exactly the tasks that are not completed and whose
\* dependencies that are tasks of the graph are all completed, each once.
C2_ReadySetExact ==
    LET ready == GetNextTasks(tasks, taskOrder) IN
    /\ Range(ready) =
          {t \in Registered :
              /\ ~tasks[t].is_completed
              /\ \A d \in Range(tasks[t].depends_on) \cap Registered : tasks[d].is_completed}
    /\ \A i, j \in 1..Len(ready) : i # j => ready[i] # ready[j]

\* a graph where one task is ready although it names an absent id, one is kept
\* out by a dependency that is not completed
C2_Witness ==
    /\ Registered = TaskIds
    /\ \E t \in Registered :
          /\ GetNextTasks(tasks, taskOrder) = <<t>>
          /\ AbsentId \in Range(tasks[t].depends_on)
          /\ \E u \in Registered : u # t /\ ~tasks[u].is_completed
                                   /\ t \in Range(tasks[u].depends_on)

\* the dependencies of task t that are tasks of the graph
GraphDeps(t) == Range(tasks[t].depends_on) \cap Registered

\* the graph is the chain t1 <- t2, one shell command each
IsChain ==
    /\ Registered = {"t1", "t2"}
    /\ tasks["t1"].depends_on = <<>>
    /\ tasks["t2"].depends_on = <<"t1">>
    /\ tasks["t1"].commands = <<CmdEcho>>
    /\ tasks["t2"].commands = <<CmdEcho>>
    /\ edges = << <<"t1", "t2">> >>

\* The part of C3 about the order: every task of a ready set, and so every task
\* a command of which is dispatched, has all its dependencies that are tasks of
\* the graph completed.
C3_DepsBeforeDispatch ==
    pc = "task" =>
        \A i \in 1..Len(next_tasks) : \A d \in GraphDeps(next_tasks[i]) : tasks[d].is_completed

\* C3: every dependency of a task that is a task of the graph is completed before
\* the task enters a ready set; in the chain t1 <- t2 both tasks complete, t1
\* before t2 becomes ready, and execute_tasks returns true.
C3_ChainCompletes ==
    /\ C3_DepsBeforeDispatch
    /\ (IsChain /\ pc = "done") =>
          /\ result = "True"
          /\ tasks["t1"].is_completed
          /\ tasks["t2"].is_completed

\* C4: is_completed is false until the run starts, goes from false to true at
\* most once per task, exactly once per task in a run that returns true, and is
\* never set back to false.
C4_CompletedOnce ==
    /\ [](\A t \in TaskIds :
            /\ flips[t] <= 1
            /\ t \in Registered => (tasks[t].is_completed <=> flips[t] = 1)
            /\ (t \in Registered /\ pc = "build") => ~tasks[t].is_completed
            /\ (t \in Registered /\ result = "True") => flips[t] = 1)
    /\ [][\A t \in Registered :
            tasks[t].is_completed => (t \in DOMAIN tasks' /\ tasks'[t].is_completed)]_vars

\* a run in which one task has been completed and the other is being run
C4_Witness ==
    /\ pc = "task"
    /\ Registered = TaskIds
    /\ \E t \in TaskIds : flips[t] = 1 /\ tasks[t].is_completed
    /\ \E t \in TaskIds : flips[t] = 0 /\ ~tasks[t].is_completed /\ next_tasks[ti] = t

\* C5: execute_tasks returns true only with every task completed, and returns
\* false when it stops on a cycle or on an empty ready set with a task left.
C5_TrueOnlyWhenAllCompleted ==
    /\ result = "True" => (pc = "done" /\ \A t \in Registered : tasks[t].is_completed)
    /\ (pc = "done" /\ EdgeRelationHasCycle) => result = "False"
    /\ (pc = "done" /\ stop \in {"cycle", "stuck"}) => result = "False"
    /\ (pc = "done" /\ \E t \in Registered : ~tasks[t].is_completed) => result = "False"

\* a run of two tasks that returned true
C5_Witness ==
    /\ pc = "done"
    /\ result = "True"
    /\ Registered = TaskIds
    /\ \A t \in Registered : tasks[t].is_completed /\ tasks[t].commands # <<>>

\* the steps a task still takes: a dispatch per command left, and its completion
RECURSIVE RoundWork(_)
RoundWork(i) ==
    IF i > Len(next_tasks) THEN 0
    ELSE Len(tasks[next_tasks[i]].commands) + 1 + RoundWork(i + 1)

RECURSIVE TotalWork(_)
TotalWork(order) ==
    IF order = <<>> THEN 0
    ELSE Len(tasks[Head(order)].commands) + 1 + TotalWork(Tail(order))

\* a natural number that bounds the steps execute_tasks still takes
Variant ==
    LET B == TotalWork(taskOrder) + 2
        incomplete == Cardinality({t \in Registered : ~tasks[t].is_completed}) IN
    CASE pc = "loop" -> B * incomplete + (B - 1)
      [] pc = "task" -> B * incomplete + (RoundWork(ti) - (ci - 1))
      [] OTHER -> 0

\* execute_tasks is at a place from which it takes a step: the head of the loop,
\* a command of the current task, or the completion of the current task
CanStep ==
    \/ pc = "loop"
    \/ /\ pc = "task"
       /\ ti \in 1..Len(next_tasks)
       /\ next_tasks[ti] \in Registered
       /\ ci \in 1..(Len(CurrentTask.commands) + 1)

\* C6: on a graph with a task and no cycle the loop ends after finitely many
\* steps (execute_tasks can always take its next step, and each step lowers a
\* natural number), and when no exception escaped a command it ends with every
\* task completed and the result true.
C6_AcyclicRunSucceeds ==
    /\ [](( /\ pc = "done"
            /\ Registered # {}
            /\ ~EdgeRelationHasCycle
            /\ stop # "exception")
          => (result = "True" /\ \A t \in Registered : tasks[t].is_completed))
    /\ []((pc \in {"loop", "task"}) => (Variant > 0 /\ CanStep))
    /\ [][(pc \in {"loop", "task"}) => Variant' < Variant]_vars

\* a run on a two-round graph with an absent dependency that returned true
C6_Witness ==
    /\ pc = "done"
    /\ result = "True"
    /\ Registered = TaskIds
    /\ \E t \in Registered : GraphDeps(t) # {} /\ AbsentId \in Range(tasks[t].depends_on)

\* C7: after a shell command dispatch, whatever the runner did, the process
\* working directory is the one that was current before the dispatch.
C7_DirRestored ==
    last.kind = "system" => cwd = last.prev_dir

\* a dispatch whose runner raised while running in another directory
C7_Witness ==
    /\ last.kind = "system"
    /\ last.outcome = "raised"
    /\ last.runner[1].cwd # last.prev_dir
    /\ cwd = last.prev_dir

\* C8 as stated: the callback receives every chunk of an AI-directed command in
\* order, and nothing for a shell command.
C8_NoShellOutputToCallback ==
    /\ (callback /\ last.kind = "atlasai") => last.cb = last.chunks
    /\ last.kind = "system" => last.cb = <<>>

\* C8, amended: a supplied callback receives every chunk of an AI-directed
\* command in the order produced; for a shell command whose runner was invoked
\* it is called exactly once, with the runner's result or, when the runner
\* raised, with the error text; without a callback nothing is delivered.
C8_CallbackContent ==
    /\ (callback /\ last.kind = "atlasai") => last.cb = last.chunks
    /\ (callback /\ last.kind = "system" /\ last.runner # <<>>) =>
          last.cb = <<IF last.out = "raise" THEN ExcText ELSE last.out>>
    /\ (callback /\ last.kind = "system" /\ last.runner = <<>>) => last.cb = <<>>
    /\ ~callback => last.cb = <<>>

\* an AI-directed command that streamed two chunks to the callback
C8_Witness ==
    /\ callback
    /\ last.kind = "atlasai"
    /\ last.chunks = <<"c1", "c2">>
    /\ last.cb = <<"c1", "c2">>

PerCommandFailures == {"failed", "restricted", "invalid"}

\* C9: a shell command that failed, a restricted command and a malformed
\* AI-directed command leave execute_tasks at the next command of the same task,
\* and a run whose last dispatch was one of them completes every task.
C9_FailureDoesNotAbort ==
    /\ [][(AtCommand /\ last' # last /\ last'.outcome \in PerCommandFailures) =>
            /\ pc' = "task"
            /\ result' = "pending"
            /\ ti' = ti
            /\ ci' = ci + 1
            /\ next_tasks' = next_tasks
            /\ tasks' = tasks]_vars
    /\ [](last.outcome \in PerCommandFailures =>
            /\ stop \in {"none", "success"}
            /\ pc = "done" => (result = "True" /\ \A t \in Registered : tasks[t].is_completed))

\* a run that returned true although the first command of its first task was
\* malformed and the last command of its last task failed
C9_Witness ==
    /\ pc = "done"
    /\ result = "True"
    /\ Registered = TaskIds
    /\ last.outcome = "failed"
    /\ tasks[taskOrder[1]].commands = <<CmdNoPayload, CmdEcho>>
    /\ tasks[taskOrder[2]].depends_on = <<taskOrder[1]>>

\* C10: an exception raised while a command is dispatched does not end the run:
\* execute_tasks returns false only on a cycle or a stuck ready set (or with no
\* task at all).
C10_ExceptionsContained ==
    /\ result = "False" => stop \in {"cycle", "stuck", "no_tasks"}
    /\ last.outcome \in {"raised", "chdir_raised"} => (pc = "task" \/ result = "True")

\* the position of id n in the sequence order
PositionIn(order, n) == CHOOSE i \in 1..Len(order) : order[i] = n

\* C11: for every graph whose edge relation is acyclic, the order returned by
\* get_execution_order holds every node of the graph once, and every dependency
\* at an earlier position than each of its dependents.
C11_DisplayOrderTopological ==
    ~EdgeRelationHasCycle =>
        LET order == GetExecutionOrder(Graph) IN
        /\ ~GetExecutionOrderRaises(Graph)
        /\ Range(order) = Range(nodes)
        /\ \A i, j \in 1..Len(order) : i # j => order[i] # order[j]
        /\ \A e \in Range(edges) : PositionIn(order, e[1]) < PositionIn(order, e[2])

\* a graph of three nodes and two edges whose order differs from the order in
\* which the nodes entered the graph
C11_Witness ==
    /\ ~EdgeRelationHasCycle
    /\ Len(nodes) = 3
    /\ Len(edges) = 2
    /\ GetExecutionOrder(Graph) # nodes
    /\ Len(GetExecutionOrder(Graph)) = 3

\* every dependency the registered tasks name is empty or the id of no task
OnlyAbsentDependencies ==
    /\ Registered # {}
    /\ \A t \in Registered : GraphDeps(t) = {}
    /\ \E t \in Registered : AbsentId \in Range(tasks[t].depends_on)

\* The part of C14 about the ready set: a task that is not completed and whose
\* dependencies that are tasks are all completed is in the ready set, whatever
\* absent ids it names.
C14_AbsentNeverBlocks ==
    \A t \in Registered :
        (~tasks[t].is_completed /\ \A d \in GraphDeps(t) : tasks[d].is_completed)
            => t \in Range(GetNextTasks(tasks, taskOrder))

\* C14: an absent dependency id never keeps its dependent out of the ready set,
\* and a run on a graph whose only dependencies are absent ids ends with every
\* task completed and the result true.
C14_AbsentDependencySatisfied ==
    /\ C14_AbsentNeverBlocks
    /\ (pc = "done" /\ OnlyAbsentDependencies) =>
          (result = "True" /\ \A t \in Registered : tasks[t].is_completed)

\* what a dispatch that returns to the loop over task.commands can report
ReturnedOutcomes == {"output", "failed", "restricted", "invalid", "returned", "raised"}

C16_StuckUnreachable ==
    /\ stop # "stuck"
    /\ (pc \in {"loop", "task"} /\ ~AllTasksCompleted(tasks)) =>
          GetNextTasks(tasks, taskOrder) # <<>>

\* a round of a run on a graph built by two add_task calls for the same id, with
\* a dependency on an absent id
C16_Witness ==
    /\ pc = "task"
    /\ nAdds = 2
    /\ Cardinality(Registered) = 1
    /\ edges # <<>>
    /\ \E t \in Registered : AbsentId \in Range(tasks[t].depends_on)

\* the relation the registered tasks define: dependency -> dependent
RegisteredRelation ==
    UNION {{<<d, t>> : d \in Range(tasks[t].depends_on) \ {""}} : t \in Registered}

\* C17: after any sequence of add_task calls the edges of the graph are exactly
\* the relation the registered tasks define, so that get_execution_order rejects
\* a graph only when that relation has a cycle.
C17_EdgesAreRegisteredRelation ==
    /\ Range(edges) = RegisteredRelation
    /\ (pc = "done" /\ stop = "cycle") =>
          \E e \in Closure(RegisteredRelation) : e[1] = e[2]

\* C18: after an add_task call the mapping holds the definition just passed
\* under its id (title, description, depends_on and commands, not completed),
\* also when the id had a definition before; the other entries are untouched and
\* every id is a key once.
C18_LastDefinitionWins ==
    /\ [](/\ Len(taskOrder) = Cardinality(Registered)
          /\ Range(taskOrder) = Registered
          /\ nAdds > 0 =>
                /\ added.id \in Registered
                /\ tasks[added.id].title = added.title
                /\ tasks[added.id].description = added.description
                /\ tasks[added.id].depends_on = added.depends_on
                /\ tasks[added.id].commands = added.commands)
    /\ [][nAdds' = nAdds + 1 =>
            /\ tasks'[added'.id] = added'
            /\ ~tasks'[added'.id].is_completed
            /\ Registered' = Registered \cup {added'.id}
            /\ \A k \in Registered \ {added'.id} : tasks'[k] = tasks[k]]_vars

\* the second add_task call for an id whose first definition had dependencies:
\* the mapping holds the second definition
C18_Witness ==
    /\ nAdds = 2
    /\ Cardinality(Registered) = 1
    /\ added.title = "Test"
    /\ added.description = ""
    /\ added.depends_on = <<>>
    /\ added.commands = <<CmdEcho>>
    /\ edges # <<>>
    /\ tasks[added.id] = added

\* what a dispatch of the command at hand does to the two capabilities, judged
\* by the text of the command: CmdQuery is well formed, CmdNoPayload has no
\* payload, CmdEcho does not start with the marker
AiChannelOnly ==
    /\ CurrentCommand = CmdQuery =>
          /\ queryCalls' = queryCalls + 1
          /\ runnerCalls' = runnerCalls
          /\ last'.query = << <<"h", "i">> >>
          /\ last'.runner = <<>>
    /\ CurrentCommand = CmdNoPayload =>
          /\ queryCalls' = queryCalls
          /\ runnerCalls' = runnerCalls
          /\ last'.query = <<>>
          /\ last'.runner = <<>>

C20_RestrictedAsksWhenVerifying ==
    /\ []((last.kind = "system" /\ last.out = OutRestricted) =>
            /\ last.asked <=> verify_commands
            /\ "command_restricted" \in Range(last.console)
            /\ Len(last.runner) = 1
            /\ last.runner[1].commands = <<last.command>>)
    /\ [](last.asked => last.out = OutRestricted)
    /\ [][(AtCommand /\ last'.out = OutRestricted) =>
            /\ runnerCalls' = runnerCalls + 1
            /\ pc' = "task"
            /\ ci' = ci + 1
            /\ ti' = ti
            /\ tasks' = tasks]_vars

\* the operator answered yes to the override of the first command of a task,
\* and the run is at the second command
C20_Witness ==
    /\ verify_commands
    /\ last.asked
    /\ last.out = OutRestricted
    /\ "override_not_implemented" \in Range(last.console)
    /\ runnerCalls = 1
    /\ pc = "task"
    /\ ci = 2
    /\ Len(CurrentTask.commands) = 2

\* the ids task1 .. taskN of the example tasks of a template
ExampleIds(n) == {"task" \o IntStr(i) : i \in 1..n}

\* C12: the template generated for N > 2 tasks parses into N + 1 tasks, task1
\* to taskN and final, each from one block of the document, and the edge
\* relation of the graph built from them is acyclic.
C12_TemplateParsesToNPlusOne ==
    (parsed /\ template_tasks > 2) =>
        /\ Registered = ExampleIds(template_tasks) \cup {"final"}
        /\ Cardinality(Registered) = template_tasks + 1
        /\ nAdds = template_tasks + 1
        /\ Len(taskOrder) = template_tasks + 1
        /\ ~EdgeRelationHasCycle
        /\ pc # "build" => stop \notin {"cycle", "no_tasks", "stuck"}

\* the template of the largest size, parsed and run to the end with success
C12_Witness ==
    /\ parsed
    /\ template_tasks = MaxTemplateTasks
    /\ template_tasks > 2
    /\ Cardinality(Registered) = template_tasks + 1
    /\ pc = "done"
    /\ result = "True"

\* C13: in the template generated for N > 2 tasks the final task depends on
\* task1 to taskN, all of them, and is in a ready set only when every one of
\* them is completed.
C13_FinalDependsOnAll ==
    (parsed /\ template_tasks > 2) =>
        /\ "final" \in Registered
        /\ Range(tasks["final"].depends_on) = ExampleIds(template_tasks)
        /\ "final" \in Range(GetNextTasks(tasks, taskOrder)) =>
              \A t \in ExampleIds(template_tasks) : tasks[t].is_completed

\* the per-command errors: a shell command that failed, a restricted command, a
\* malformed AI-directed command, an exception of the runner
PerCommandError(d) ==
    \/ d.outcome \in {"failed", "restricted", "invalid"}
    \/ d.kind = "system" /\ d.outcome = "raised"

\* C21: every per-command error is delivered to the supplied callback as well as
\* to the operator: the dispatch that met the error called the callback, and for
\* a shell command with the text of the error.
C21_ErrorsReachCallback ==
    (callback /\ PerCommandError(last)) =>
        /\ Len(last.console) >= 2
        /\ last.cb # <<>>
        /\ last.kind = "system" =>
              last.cb = <<IF last.out = "raise" THEN ExcText ELSE last.out>>

AuthoredTokens ==
    SelectSeq([k \in 1..Len(authored.items) |-> authored.items[k].token],
              LAMBDA token : token # "")

\* C23: the parsed depends_on is the sequence of the comma-separated tokens of
\* the depends attribute, trimmed, without the empty ones, in their order; an
\* empty or all-blank attribute gives an empty depends_on and no edge.
C23_DependsTokens ==
    (parsed /\ authored.kind = "depends") =>
        /\ tasks["t1"].depends_on = AuthoredTokens
        /\ tasks["t2"].depends_on = <<>>
        /\ Range(edges) = {<<AuthoredTokens[k], "t1">> : k \in 1..Len(AuthoredTokens)}
        /\ AuthoredTokens = <<>> => edges = <<>>

\* a padded token and a blank one: the first is trimmed, the second discarded
C23_Witness ==
    /\ parsed
    /\ authored.kind = "depends"
    /\ authored.items = <<[pre |-> " ", token |-> "t2", post |-> " "],
                          [pre |-> "", token |-> "", post |-> " "]>>
    /\ tasks["t1"].depends_on = <<"t2">>
    /\ edges = <<<<"t2", "t1">>>>

\* the command lines the author wrote in the blocks, without the blank ones
RECURSIVE AuthoredCommands(_)
AuthoredCommands(blocks) ==
    IF blocks = <<>> THEN <<>>
    ELSE SelectSeq([k \in 1..Len(Head(blocks).lines) |-> Head(blocks).lines[k].text],
                   LAMBDA text : text # "")
         \o AuthoredCommands(Tail(blocks))

\* C24: of a body made of a heading line, narrative text and fenced blocks the
\* description is the narrative text alone, and the commands are the trimmed
\* non-blank lines inside the blocks, in document order: no fence line, no
\* heading, no text outside the fences among them.
C24_DescriptionAndCommands ==
    (parsed /\ authored.kind = "body") =>
        /\ tasks["t1"].description = authored.narrative
        /\ tasks["t1"].commands = AuthoredCommands(authored.blocks)
        /\ tasks["t2"].description = "what the task does"
        /\ tasks["t2"].commands = <<CmdEcho>>

\* two blocks with text between them, padded and blank lines in the first
C24_Witness ==
    /\ parsed
    /\ authored.kind = "body"
    /\ authored.narrative = "line one\n   line two"
    /\ authored.between = "then:\n"
    /\ Len(authored.blocks) = 2
    /\ authored.blocks[1].tag = ""
    /\ authored.blocks[2].tag = "bash"
    /\ tasks["t1"].commands = <<"ls -l", "# note", "echo a">>
    /\ tasks["t1"].description = "line one\n   line two"

\* C25: whatever the metadata section holds (key: value lines, lines without a
\* colon, no line at all), parsing leaves a mapping in the graph's metadata,
\* never None and never a bare scalar, and the title lookup on it is defined.
C25_MetadataIsMapping ==
    (parsed /\ authored.kind = "metadata") =>
        /\ metadata.type = "dict"
        /\ stop # "lookup_raised"

\* the round the claim gives task t: one more than the largest round of its
\* dependencies that are tasks of the graph, 1 without any
ClaimedRound(t) ==
    1 + SetMax({ran_round[d] : d \in GraphDeps(t)} \cup {0})

\* C26: the ready set is taken once per round and its members are run in the
\* insertion order of the tasks mapping before it is taken again: the tasks
\* before the current one were run in this round, the others of the set not yet,
\* and every task that was run ran in round 1 + the largest round of its
\* dependencies present in the graph.
C26_RoundByRound ==
    /\ \A t \in Registered : ran_round[t] > 0 =>
          /\ tasks[t].is_completed
          /\ ran_round[t] = ClaimedRound(t)
          /\ ran_round[t] <= round
    /\ pc = "task" =>
          /\ round > 0
          /\ \A i \in 1..Len(next_tasks) :
                ran_round[next_tasks[i]] = IF i < ti THEN round ELSE 0
          /\ \A i, j \in 1..Len(next_tasks) :
                i < j => PositionIn(taskOrder, next_tasks[i]) < PositionIn(taskOrder, next_tasks[j])
          /\ \A t \in Registered :
                (ran_round[t] = 0 /\ \A d \in GraphDeps(t) : ran_round[d] \in 1..(round - 1))
                    => t \in Range(next_tasks)

\* t1 waits for t3, which is registered last: t2 and t3 run in round 1 in the
\* order of the tasks mapping, t1 in round 2 although t3 completed during round
\* 1, and the displayed order t3, t2, t1 is not the order they were run in
C26_Witness ==
    /\ pc = "done"
    /\ result = "True"
    /\ taskOrder = <<"t1", "t2", "t3">>
    /\ tasks["t1"].depends_on = <<"t3">>
    /\ ran_round = [t \in {"t1", "t2", "t3"} |-> IF t = "t1" THEN 2 ELSE 1]
    /\ execution_order = <<"t3", "t2", "t1">>

\* s is the beginning of t
IsPrefix(s, t) == Len(s) <= Len(t) /\ SubSeq(t, 1, Len(s)) = s

\* C27: no task is executed twice: the commands of a task dispatched so far are
\* the beginning of its command list, each occurrence once and in document
\* order, and after a run that returned true they are the whole list, for every
\* task.
C27_EachCommandOnce ==
    \A t \in Registered :
        /\ IsPrefix(dispatches[t], tasks[t].commands)
        /\ flips[t] <= 1
        /\ result = "True" => dispatches[t] = tasks[t].commands

\* a run of two tasks in two rounds that returned true, two commands in each
C27_Witness ==
    /\ result = "True"
    /\ Registered = TaskIds
    /\ round = 2
    /\ dispatches["t1"] = <<CmdEcho, CmdQuery>>
    /\ dispatches["t2"] = <<CmdNoPayload, CmdEcho>>

\* the ids the depends_on lists name that are not tasks of the graph
AbsentDependencies ==
    {d \in UNION {Range(tasks[t].depends_on) : t \in Registered} : d # "" /\ d \notin Registered}

\* C28: an id a dependency token names becomes a node although no task has it:
\* the display order holds every node once, so every registered id once and
\* every absent id the tasks name, and no ready set ever holds an id that is
\* not registered.
C28_AbsentIdsInDisplayOrder ==
    (agent /\ stop # "cycle") =>
        /\ Len(execution_order) = Cardinality(Range(execution_order))
        /\ Range(execution_order) = Range(nodes)
        /\ Registered \cup AbsentDependencies \subseteq Range(execution_order)
        /\ "" \notin Range(execution_order)
        /\ Range(next_tasks) \subseteq Registered
        /\ \A n \in DOMAIN dispatches \ Registered : ran_round[n] = 0 /\ dispatches[n] = <<>>

\* a completed run of two tasks whose plan showed three ids, the absent one
\* first
C28_Witness ==
    /\ result = "True"
    /\ Registered = TaskIds
    /\ AbsentDependencies = {AbsentId}
    /\ Len(execution_order) = 3
    /\ execution_order[1] = AbsentId

\* the command begins with the seven characters of the marker
BeginsWithMarker(command) == Len(command) >= 7 /\ SubSeq(command, 1, 7) = "atlasai"

\* the words of the command, split at single blanks
CommandWords(command) == SplitStr(command, " ")

C30_NoTasksReturnsFalse ==
    (result # "pending" /\ Registered = {}) =>
        /\ result = "False"
        /\ stop = "no_tasks"
        /\ ~agent
        /\ execution_order = <<>>
        /\ round = 0
        /\ runnerCalls = 0
        /\ queryCalls = 0
        /\ last = NoDispatch
        /\ AllTasksCompleted(tasks)

\* execute_tasks has returned false for a graph nothing was added to
C30_Witness ==
    /\ pc = "done"
    /\ nAdds = 0
    /\ tasks = <<>>
    /\ result = "False"
    /\ working_dir = "/work"

====
